---- MODULE Spec2Model ----
(***************************************************************************)
(* Model of downloader.py: a CSV of PubMed ids is read row by row, the     *)
(* abstract of each id is fetched over HTTP through a requests Session     *)
(* with a urllib3 Retry mounted on it, and the row is written back with an *)
(* "abstract" column appended.                                             *)
(***************************************************************************)
EXTENDS Integers, Sequences, FiniteSets, TLC

\* ------------------------------------------------------------------ bounds
MaxRows == 3

\* --------------------------------------------------------- program constants
ABSTRACT_FIELDNAME == "abstract"
PMID_FIELDNAME == "PMID"
DOWNLOAD_FAILED == "Abstract download failed: could not download page"
NOT_FOUND == "Abstract download failed: abstract not found on page"

\* default value of sane_retry's `retries` argument
DEFAULT_RETRIES == 4
\* default value of sane_retry's `additional_status_forcelist` argument
DEFAULT_ADDITIONAL_STATUS_FORCELIST == {500, 502, 503, 504}
\* default value of sane_retry's `additional_allowed_methods` argument
DEFAULT_ADDITIONAL_ALLOWED_METHODS == {}
\* urllib3.util.Retry.RETRY_AFTER_STATUS_CODES
RETRY_AFTER_STATUS_CODES == {413, 429, 503}
\* urllib3.util.Retry.DEFAULT_ALLOWED_METHODS
DEFAULT_ALLOWED_METHODS == {"HEAD", "GET", "PUT", "DELETE", "OPTIONS", "TRACE"}

\* Python's None, and a present optional value
None == <<>>
Some(x) == <<x>>

\* --------------------------------------------------------------- the inputs
PMIDs == {"111", "222"}
Headers == {<<"PMID", "title">>, <<"title">>, <<"PMID", "abstract">>}

Range(s) == {s[i] : i \in 1..Len(s)}

\* the cell of the record of pmid in the column f
Cell(pmid, f) ==
    IF f = PMID_FIELDNAME THEN pmid
    ELSE IF f = "title" THEN (IF pmid = "111" THEN "title of 111" ELSE "title of 222")
    ELSE "old"

\* the rows csv.DictReader can produce under the field names h
RowsFor(h) == {[f \in Range(h) |-> Cell(pmid, f)] : pmid \in PMIDs}

\* what the remote service can answer: the abstract text of the page of pmid
TextOf(pmid) == IF pmid = "111" THEN "abstract of 111" ELSE "abstract of 222"

Div(id, text) == [tag |-> "div", id |-> id, text |-> text]
Span(id, text) == [tag |-> "span", id |-> id, text |-> text]

\* the pages the service can serve for pmid: a sequence of elements
Pages(pmid) ==
    { <<Div("title", "t"), Div("abstract", TextOf(pmid))>>,
      <<Div("abstract", "")>>,
      <<Div("title", "t"), Span("abstract", "s")>> }

Statuses == {200, 404, 429, 500, 502, 503, 504}

VARIABLES
    pc,          \* position of main
    in_header,   \* the input's field names (None: the input is empty)
    in_rows,     \* the input's data rows
    in_open,     \* input_handle is open
    out_open,    \* output_handle is open
    reader_pos,  \* number of rows the reader has produced
    row,         \* the row being processed (None between rows)
    retry,       \* the Retry object of the request in flight
    attempts,    \* requests the transport has received for the current get
    only5xx,     \* every attempt of the current get answered 500/502/503/504
    response,    \* the response session.get returned (None before)
    out_header,  \* the header line written to the sink (None before)
    out_rows,    \* the data lines written to the sink, cells in header order
    log,         \* the events emitted on the logger
    row_count,   \* main's row_count
    fetched,     \* per completed get: the response session.get returned
    error,       \* the exception that ended main (None if none)
    fn_in,       \* argument of a function applied on its own
    fn_out       \* its result

vars == <<pc, in_header, in_rows, in_open, out_open, reader_pos, row, retry,
          attempts, only5xx, response, out_header, out_rows, log, row_count,
          fetched, error, fn_in, fn_out>>

\* ------------------------------------------------------------ retry policy
\* sane_retry with one retry too few in the total
sane_retry_total_short(retries, additional_status_forcelist, additional_allowed_methods) ==
    [ total |-> retries - 1,
      read |-> retries,
      connect |-> retries,
      status_forcelist |-> RETRY_AFTER_STATUS_CODES \cup additional_status_forcelist,
      allowed_methods |-> DEFAULT_ALLOWED_METHODS \cup additional_allowed_methods ]

\* sane_retry that leaves no retry for connection failures
sane_retry_no_connect(retries, additional_status_forcelist, additional_allowed_methods) ==
    [ total |-> retries,
      read |-> retries,
      connect |-> 0,
      status_forcelist |-> RETRY_AFTER_STATUS_CODES \cup additional_status_forcelist,
      allowed_methods |-> DEFAULT_ALLOWED_METHODS \cup additional_allowed_methods ]

sane_retry(retries, additional_status_forcelist, additional_allowed_methods) ==
    [ total |-> retries,
      read |-> retries,
      connect |-> retries,
      status_forcelist |-> RETRY_AFTER_STATUS_CODES \cup additional_status_forcelist,
      allowed_methods |-> DEFAULT_ALLOWED_METHODS \cup additional_allowed_methods ]

\* requests_retry_session: the session carries sane_retry() with its defaults
requests_retry_session ==
    sane_retry(DEFAULT_RETRIES, DEFAULT_ADDITIONAL_STATUS_FORCELIST,
               DEFAULT_ADDITIONAL_ALLOWED_METHODS)

\* Retry.is_retry for a response without a Retry-After header
is_retry(r, method, status) ==
    /\ method \in r.allowed_methods
    /\ status \in r.status_forcelist

\* Retry.increment: kind is "connect", "read" or "status"
increment(r, kind) ==
    [r EXCEPT !.total = @ - 1,
              !.connect = IF kind = "connect" THEN @ - 1 ELSE @,
              !.read = IF kind = "read" THEN @ - 1 ELSE @]

Min(S) == CHOOSE x \in S : \A y \in S : x <= y

\* Retry.is_exhausted: zero counters are filtered out before taking the minimum
is_exhausted(r) ==
    LET retry_counts == {x \in {r.total, r.connect, r.read} : x # 0}
    IN  IF retry_counts = {} THEN FALSE ELSE Min(retry_counts) < 0

\* ------------------------------------------------------------- the fetcher
\* soup.find("div", {"id": "abstract"}): the first matching element, or None
find(html, tag, id) ==
    LET hits == {i \in 1..Len(html) : html[i].tag = tag /\ html[i].id = id}
    IN  IF hits = {} THEN None ELSE Some(html[Min(hits)])

_html_to_abstract(html) ==
    LET abstract == find(html, "div", "abstract")
    IN  IF abstract = None THEN None ELSE Some(abstract[1].text)

\* raise_for_status that lets a 4xx status through
raises_for_status_5xx_only(status) == 500 <= status /\ status < 600

\* Response.raise_for_status raises HTTPError for a 4xx or 5xx status
raises_for_status(status) == 400 <= status /\ status < 600

\* _fetch_pmid once session.get has returned resp: the text, or None
_fetch_pmid(resp) ==
    IF raises_for_status(resp.status) THEN None ELSE Some(resp.text)

\* fetch_events with the failed download reported by _log.warning
fetch_events_warning(pmid, resp) ==
    IF _fetch_pmid(resp) = None
    THEN <<[level |-> "WARNING", msg |-> "Failed to fetch PMID", arg |-> pmid]>>
    ELSE IF _html_to_abstract(_fetch_pmid(resp)[1]) = None
    THEN <<[level |-> "WARNING", msg |-> "No abstract found for PMID", arg |-> pmid]>>
    ELSE <<>>

\* the events _fetch_pmid and _get_pmid_abstract emit for resp
fetch_events(pmid, resp) ==
    IF _fetch_pmid(resp) = None
    THEN <<[level |-> "ERROR", msg |-> "Failed to fetch PMID", arg |-> pmid]>>
    ELSE IF _html_to_abstract(_fetch_pmid(resp)[1]) = None
    THEN <<[level |-> "WARNING", msg |-> "No abstract found for PMID", arg |-> pmid]>>
    ELSE <<>>

\* _get_pmid_abstract with one sentinel for both failures
_get_pmid_abstract_one_sentinel(resp) ==
    LET html == _fetch_pmid(resp)
    IN  IF html = None THEN DOWNLOAD_FAILED
        ELSE LET abstract == _html_to_abstract(html[1])
             IN  IF abstract = None THEN DOWNLOAD_FAILED ELSE abstract[1]

\* _get_pmid_abstract once session.get has returned resp
_get_pmid_abstract(resp) ==
    LET html == _fetch_pmid(resp)
    IN  IF html = None THEN DOWNLOAD_FAILED
        ELSE LET abstract == _html_to_abstract(html[1])
             IN  IF abstract = None THEN NOT_FOUND ELSE abstract[1]

\* update_row that keeps a value the row already has (dict.setdefault)
update_row_setdefault(r, abstract) ==
    [f \in DOMAIN r \cup {ABSTRACT_FIELDNAME} |->
        IF f \in DOMAIN r THEN r[f] ELSE abstract]

\* update_row's assignment row[ABSTRACT_FIELDNAME] = abstract
update_row(r, abstract) ==
    [f \in DOMAIN r \cup {ABSTRACT_FIELDNAME} |->
        IF f = ABSTRACT_FIELDNAME THEN abstract ELSE r[f]]

\* the result field put first (fieldnames.insert(0, ABSTRACT_FIELDNAME))
out_fieldnames_first(fieldnames) == <<ABSTRACT_FIELDNAME>> \o fieldnames

\* fieldnames = list(reader.fieldnames); fieldnames.append(ABSTRACT_FIELDNAME)
out_fieldnames(fieldnames) == Append(fieldnames, ABSTRACT_FIELDNAME)

\* csv.DictWriter.writerow: the cells of rowdict in the order of fieldnames
writerow(fieldnames, rowdict) ==
    [j \in 1..Len(fieldnames) |->
        IF fieldnames[j] \in DOMAIN rowdict THEN rowdict[fieldnames[j]] ELSE ""]

\* ------------------------------------------- math.log(n, 2).is_integer()
\* A double x > 0 is [hi, lo, e], worth (hi * 2^27 + lo) * 2^e, its mantissa
\* hi * 2^27 + lo having exactly DBL_MANT_DIG bits; 0.0 is [0, 0, 0].
DBL_MANT_DIG == 53

W == 2^27

BitLength(x) == CHOOSE n \in 0..31 : 2^n > x /\ (n = 0 \/ 2^(n - 1) <= x)

\* the mantissa (hi, lo) at scale e rounded to nearest, ties to even: guard is
\* the first bit dropped below it, sticky tells whether a later one is set
RoundToDouble(hi, lo, e, guard, sticky) ==
    LET up == guard = 1 /\ (sticky \/ lo % 2 = 1)
        lo2 == IF up THEN (lo + 1) % W ELSE lo
        hi2 == IF up /\ lo + 1 = W THEN hi + 1 ELSE hi
    IN  IF hi2 = 2^(DBL_MANT_DIG - 27)
        THEN [hi |-> 2^(DBL_MANT_DIG - 28), lo |-> 0, e |-> e + 1]
        ELSE [hi |-> hi2, lo |-> lo2, e |-> e]

\* ln 2 = 0.B1721 7F7D1 CF79A BC9E3 ... in base 16: the first 80 bits as four
\* limbs of 20 bits, the least significant first
LN2 == <<772579, 849818, 522193, 726817>>

\* k * ln 2 * 2^80 for a natural k < 32, the three low limbs below 2^20
times_ln2(k) ==
    LET t1 == k * LN2[1]
        t2 == (k * LN2[2]) + (t1 \div (2^20))
        t3 == (k * LN2[3]) + (t2 \div (2^20))
        t4 == (k * LN2[4]) + (t3 \div (2^20))
    IN  <<t1 % (2^20), t2 % (2^20), t3 % (2^20), t4>>

\* bit i of the limbs v
BitAt(v, i) ==
    LET j == IF i >= 60 THEN 3 ELSE i \div 20
    IN  (v[j + 1] \div (2^(i - (20 * j)))) % 2

\* the n bits of v from bit i upwards, as a number
RECURSIVE Slice(_, _, _)
Slice(v, i, n) ==
    IF n = 0 THEN 0 ELSE BitAt(v, i) + (2 * Slice(v, i + 1, n - 1))

\* libm's log of 2^k: the double nearest to k * ln 2
log_pow2(k) ==
    IF k = 0 THEN [hi |-> 0, lo |-> 0, e |-> 0]
    ELSE LET v == times_ln2(k)
             drop == (60 + BitLength(v[4])) - DBL_MANT_DIG
         IN  RoundToDouble(Slice(v, drop + 27, DBL_MANT_DIG - 27),
                           Slice(v, drop, 27),
                           drop - 80,
                           BitAt(v, drop - 1),
                           \E i \in 0..(drop - 2) : BitAt(v, i) = 1)

\* one step of the long division by the mantissa of d: the quotient and the
\* remainder are doubled, and d is taken from the remainder if it fits
DivStep(d, s) ==
    LET rl == (2 * s.rl) % W
        rh == (2 * s.rh) + ((2 * s.rl) \div W)
        fits == rh > d.hi \/ (rh = d.hi /\ rl >= d.lo)
        borrow == IF rl >= d.lo THEN 0 ELSE 1
    IN  [qh |-> (2 * s.qh) + ((2 * s.ql) \div W),
         ql |-> ((2 * s.ql) % W) + (IF fits THEN 1 ELSE 0),
         rh |-> IF fits THEN (rh - d.hi) - borrow ELSE rh,
         rl |-> IF fits THEN (rl - d.lo) + (borrow * W) ELSE rl]

RECURSIVE DivIter(_, _, _)
DivIter(d, s, n) ==
    IF n = 0 THEN s
    ELSE CHOOSE r \in {DivIter(d, t, n - 1) : t \in {DivStep(d, s)}} : TRUE

\* x / y in double arithmetic, for doubles x >= 0.0 and y > 0.0
float_div(x, y) ==
    IF x.hi = 0 THEN x
    ELSE LET first == x.hi > y.hi \/ (x.hi = y.hi /\ x.lo >= y.lo)
             borrow == IF x.lo >= y.lo THEN 0 ELSE 1
             s0 == IF first
                   THEN [qh |-> 0, ql |-> 1, rh |-> (x.hi - y.hi) - borrow,
                         rl |-> (x.lo - y.lo) + (borrow * W)]
                   ELSE [qh |-> 0, ql |-> 0, rh |-> x.hi, rl |-> x.lo]
             bits == DBL_MANT_DIG + 3
             drop == IF first THEN 4 ELSE 3
         IN  CHOOSE r \in
               { RoundToDouble(t.qh \div (2^drop),
                               (t.ql \div (2^drop)) + ((t.qh % (2^drop)) * (2^(27 - drop))),
                               ((x.e - y.e) - bits) + drop,
                               (t.ql \div (2^(drop - 1))) % 2,
                               t.ql % (2^(drop - 1)) # 0 \/ t.rh # 0 \/ t.rl # 0)
                 : t \in {DivIter(y, s0, bits)} } : TRUE

\* float.is_integer
is_integer(x) ==
    \/ x.hi = 0
    \/ x.e >= 0
    \/ /\ -x.e < DBL_MANT_DIG
       /\ IF -x.e <= 27 THEN x.lo % (2^(-x.e)) = 0
          ELSE x.lo = 0 /\ x.hi % (2^((-x.e) - 27)) = 0

\* the exponent k when n = 2^k, and -1 when n is no power of two
RECURSIVE exponent_of(_)
exponent_of(n) ==
    IF n = 1 THEN 0
    ELSE IF n % 2 = 1 THEN -1
    ELSE LET k == exponent_of(n \div 2) IN IF k < 0 THEN -1 ELSE k + 1

\* math.log(2^k, 2) = log(2^k) / log(2), for every 2^k that is a 32-bit integer
math_log_2 == [k \in 0..30 |-> float_div(log_pow2(k), log_pow2(1))]

\* math.log(n, 2).is_integer(). Between two powers of two below 2^31 the
\* logarithm is further than 2^-31 from an integer and the quotient of the two
\* doubles is within 2^-45 of it, so there the result is no integer.
is_power_of_two(n) ==
    IF exponent_of(n) < 0 THEN FALSE ELSE is_integer(math_log_2[exponent_of(n)])

\* the progress event main emits after writing row number n
progress_events(n) ==
    IF is_power_of_two(n)
    THEN <<[level |-> "INFO", msg |-> "Processed row", arg |-> n]>>
    ELSE <<>>

\* the summary with the rate computed whatever the count
summary_events_always_rate(n) ==
    <<[level |-> "INFO", msg |-> "Download complete", arg |-> n],
      [level |-> "INFO", msg |-> "Process rate", arg |-> n]>>

\* the events main emits after the loop
summary_events(n) ==
    <<[level |-> "INFO", msg |-> "Download complete", arg |-> n]>>
    \o (IF n > 0 THEN <<[level |-> "INFO", msg |-> "Process rate", arg |-> n]>>
        ELSE <<>>)

\* ---------------------------------------------------------------- the run
Inputs ==
    {<<None, <<>>>>} \cup
    {<<h, rs>> : h \in Headers, rs \in {<<>>}} \cup
    UNION {UNION { {<<h, rs>> : rs \in [1..n -> RowsFor(h)]} : n \in 1..MaxRows}
              : h \in Headers}

Init ==
    /\ \E inp \in Inputs : in_header = inp[1] /\ in_rows = inp[2]
    /\ pc = "start"
    /\ in_open = FALSE
    /\ out_open = FALSE
    /\ reader_pos = 0
    /\ row = None
    /\ retry = None
    /\ attempts = 0
    /\ only5xx = TRUE
    /\ response = None
    /\ out_header = None
    /\ out_rows = <<>>
    /\ log = <<>>
    /\ row_count = 0
    /\ fetched = <<>>
    /\ error = None
    /\ fn_in = None
    /\ fn_out = None

\* an exception that leaves main without the with-blocks closing the handles
Abort_leaks(exc) ==
    /\ pc' = "aborted"
    /\ error' = Some(exc)
    /\ UNCHANGED <<in_open, out_open>>
    /\ row' = None
    /\ retry' = None
    /\ response' = None

\* an exception leaves main: both with-blocks close their handle on the way out
Abort(exc) ==
    /\ pc' = "aborted"
    /\ error' = Some(exc)
    /\ in_open' = FALSE
    /\ out_open' = FALSE
    /\ row' = None
    /\ retry' = None
    /\ response' = None

\* open(sys.argv[1], "r")
OpenInput ==
    /\ pc = "start"
    /\ \E ok \in BOOLEAN :
         IF ok
         THEN /\ pc' = "input_open"
              /\ in_open' = TRUE
              /\ UNCHANGED <<error, out_open, row, retry, response>>
         ELSE Abort("OSError")
    /\ UNCHANGED <<in_header, in_rows, reader_pos, attempts, only5xx, out_header,
                   out_rows, log, row_count, fetched, fn_in, fn_out>>

\* open(sys.argv[2], "w")
OpenOutput ==
    /\ pc = "input_open"
    /\ \E ok \in BOOLEAN :
         IF ok
         THEN /\ pc' = "output_open"
              /\ out_open' = TRUE
              /\ UNCHANGED <<error, in_open, row, retry, response>>
         ELSE Abort("OSError")
    /\ UNCHANGED <<in_header, in_rows, reader_pos, attempts, only5xx, out_header,
                   out_rows, log, row_count, fetched, fn_in, fn_out>>

\* the reader's field names are read, extended and written as the header
WriteHeader ==
    /\ pc = "output_open"
    /\ IF in_header = None
       THEN /\ Abort("AssertionError")
            /\ UNCHANGED out_header
       ELSE /\ out_header' = Some(out_fieldnames(in_header))
            /\ pc' = "loop"
            /\ UNCHANGED <<error, in_open, out_open, row, retry, response>>
    /\ UNCHANGED <<in_header, in_rows, reader_pos, attempts, only5xx,
                   out_rows, log, row_count, fetched, fn_in, fn_out>>

\* NextRow that passes over a row without PMID instead of raising KeyError
NextRow_skips_missing ==
    /\ pc = "loop"
    /\ reader_pos < Len(in_rows)
    /\ reader_pos' = reader_pos + 1
    /\ attempts' = 0
    /\ only5xx' = TRUE
    /\ LET r == in_rows[reader_pos + 1]
       IN  IF PMID_FIELDNAME \in DOMAIN r
           THEN /\ row' = Some(r)
                /\ retry' = Some(requests_retry_session)
                /\ pc' = "get"
                /\ UNCHANGED <<error, in_open, out_open, response>>
           ELSE UNCHANGED <<pc, row, retry, error, in_open, out_open, response>>
    /\ UNCHANGED <<in_header, in_rows, out_header, out_rows, log, row_count,
                   fetched, fn_in, fn_out>>

\* NextRow that answers a PMID seen before from the response kept for it
NextRow_cached ==
    /\ pc = "loop"
    /\ reader_pos < Len(in_rows)
    /\ reader_pos' = reader_pos + 1
    /\ attempts' = 0
    /\ only5xx' = TRUE
    /\ LET r == in_rows[reader_pos + 1]
           seen == {i \in 1..Len(fetched) :
                       PMID_FIELDNAME \in DOMAIN r
                       /\ in_rows[i][PMID_FIELDNAME] = r[PMID_FIELDNAME]}
       IN  IF PMID_FIELDNAME \in DOMAIN r
           THEN /\ row' = Some(r)
                /\ retry' = Some(requests_retry_session)
                /\ IF seen # {}
                   THEN /\ response' = Some(fetched[CHOOSE i \in seen : TRUE])
                        /\ pc' = "got"
                   ELSE /\ response' = response
                        /\ pc' = "get"
                /\ UNCHANGED <<error, in_open, out_open>>
           ELSE Abort("KeyError")
    /\ UNCHANGED <<in_header, in_rows, out_header, out_rows, log, row_count,
                   fetched, fn_in, fn_out>>

\* the generator pulls the next row and update_row starts its session.get
NextRow ==
    /\ pc = "loop"
    /\ reader_pos < Len(in_rows)
    /\ reader_pos' = reader_pos + 1
    /\ attempts' = 0
    /\ only5xx' = TRUE
    /\ LET r == in_rows[reader_pos + 1]
       IN  IF PMID_FIELDNAME \in DOMAIN r
           THEN /\ row' = Some(r)
                /\ retry' = Some(requests_retry_session)
                /\ pc' = "get"
                /\ UNCHANGED <<error, in_open, out_open, response>>
           ELSE Abort("KeyError")
    /\ UNCHANGED <<in_header, in_rows, out_header, out_rows, log, row_count,
                   fetched, fn_in, fn_out>>

\* f"https://pubmed.ncbi.nlm.nih.gov/{pmid}/"
pmid_url(pmid) == <<"https://pubmed.ncbi.nlm.nih.gov/", pmid, "/">>

\* what the transport can do with one request for url
Outcomes(url) ==
    {[kind |-> "connect", status |-> 0, text |-> <<>>],
     [kind |-> "read", status |-> 0, text |-> <<>>]}
    \cup {[kind |-> "status", status |-> 200, text |-> p] : p \in Pages(url[2])}
    \cup {[kind |-> "status", status |-> s, text |-> <<>>] : s \in Statuses \ {200}}

\* the exception requests raises when the retries are exhausted on outcome o
exhausted_error(o) ==
    IF o.kind = "status" THEN "RetryError" ELSE "ConnectionError"

\* one request reaches the transport: urlopen returns a response that is not
\* to be retried, raises when the Retry is exhausted (or a read failure hits a
\* method that is not retryable), and sends the request again otherwise
Send ==
    /\ pc = "get"
    /\ attempts' = attempts + 1
    /\ \E o \in Outcomes(pmid_url(row[1][PMID_FIELDNAME])) :
         /\ only5xx' = (only5xx /\ o.kind = "status"
                          /\ o.status \in {500, 502, 503, 504})
         /\ IF o.kind = "status" /\ ~is_retry(retry[1], "GET", o.status)
            THEN /\ response' = Some([url |-> pmid_url(row[1][PMID_FIELDNAME]),
                                      status |-> o.status, text |-> o.text])
                 /\ pc' = "got"
                 /\ UNCHANGED <<error, in_open, out_open, row, retry>>
            ELSE IF \/ o.kind = "read" /\ "GET" \notin retry[1].allowed_methods
                    \/ is_exhausted(increment(retry[1], o.kind))
            THEN Abort(exhausted_error(o))
            ELSE /\ retry' = Some(increment(retry[1], o.kind))
                 /\ UNCHANGED <<pc, error, in_open, out_open, row, response>>
    /\ UNCHANGED <<in_header, in_rows, reader_pos, out_header, out_rows, log,
                   row_count, fetched, fn_in, fn_out>>

\* WriteRow that keeps the updated row back instead of handing it to the writer
WriteRow_buffered ==
    /\ pc = "got"
    /\ LET pmid == row[1][PMID_FIELDNAME]
           row_number == Len(fetched) + 1
       IN  /\ log' = log \o fetch_events(pmid, response[1])
                         \o progress_events(row_number)
           /\ row_count' = row_number
           /\ fetched' = Append(fetched, response[1])
    /\ row' = None
    /\ retry' = None
    /\ response' = None
    /\ pc' = "loop"
    /\ UNCHANGED <<in_header, in_rows, in_open, out_open, reader_pos, attempts,
                   only5xx, out_header, out_rows, error, fn_in, fn_out>>

\* the rest of update_row and of the loop body for the response received
WriteRow ==
    /\ pc = "got"
    /\ LET pmid == row[1][PMID_FIELDNAME]
           updated_row == update_row(row[1], _get_pmid_abstract(response[1]))
           row_number == Len(out_rows) + 1
       IN  /\ out_rows' = Append(out_rows, writerow(out_header[1], updated_row))
           /\ log' = log \o fetch_events(pmid, response[1])
                         \o progress_events(row_number)
           /\ row_count' = row_number
           /\ fetched' = Append(fetched, response[1])
    /\ row' = None
    /\ retry' = None
    /\ response' = None
    /\ pc' = "loop"
    /\ UNCHANGED <<in_header, in_rows, in_open, out_open, reader_pos, attempts,
                   only5xx, out_header, error, fn_in, fn_out>>

\* the reader is exhausted: the handles close and the summary is logged
Finish ==
    /\ pc = "loop"
    /\ reader_pos = Len(in_rows)
    /\ pc' = "done"
    /\ in_open' = FALSE
    /\ out_open' = FALSE
    /\ log' = log \o summary_events(row_count)
    /\ UNCHANGED <<in_header, in_rows, reader_pos, row, retry, attempts, only5xx,
                   response, out_header, out_rows, row_count, fetched, error,
                   fn_in, fn_out>>

Next ==
    \/ OpenInput
    \/ OpenOutput
    \/ WriteHeader
    \/ NextRow
    \/ Send
    \/ WriteRow
    \/ Finish

Spec == Init /\ [][Next]_vars

\* ------------------------------------- sane_retry called with arguments
MaxRetriesArg == 2
StatusArgs == {404, 418, 429, 500, 502}
MethodArgs == {"GET", "POST", "PATCH"}

\* the variables of the run, while a function is applied on its own
NoRun ==
    /\ pc = "call"
    /\ in_header = None
    /\ in_rows = <<>>
    /\ in_open = FALSE
    /\ out_open = FALSE
    /\ reader_pos = 0
    /\ row = None
    /\ retry = None
    /\ attempts = 0
    /\ only5xx = TRUE
    /\ response = None
    /\ out_header = None
    /\ out_rows = <<>>
    /\ log = <<>>
    /\ row_count = 0
    /\ fetched = <<>>
    /\ error = None

run_vars == <<in_header, in_rows, in_open, out_open, reader_pos, row, retry,
              attempts, only5xx, response, out_header, out_rows, log, row_count,
              fetched, error>>

InitRetry ==
    /\ NoRun
    /\ fn_in \in [retries : 0..MaxRetriesArg,
                  additional_status_forcelist : SUBSET StatusArgs,
                  additional_allowed_methods : SUBSET MethodArgs]
    /\ fn_out = None

CallSaneRetry ==
    /\ pc = "call"
    /\ fn_out' = Some(sane_retry(fn_in.retries, fn_in.additional_status_forcelist,
                                 fn_in.additional_allowed_methods))
    /\ pc' = "returned"
    /\ UNCHANGED <<run_vars, fn_in>>

NextRetry == CallSaneRetry

SpecRetry == InitRetry /\ [][NextRetry]_vars

\* ------------------------------ the progress test at a given row number
MaxRowNumber == 40

RowNumbers ==
    1..MaxRowNumber
    \cup {2^k : k \in 0..30}
    \cup {2^k + 1 : k \in 0..29}
    \cup {2^k - 1 : k \in 1..30}

InitProgress ==
    /\ NoRun
    /\ fn_in \in RowNumbers
    /\ fn_out = None

\* the loop body's progress test for the row number fn_in
CallProgress ==
    /\ pc = "call"
    /\ fn_out' = Some(progress_events(fn_in))
    /\ pc' = "returned"
    /\ UNCHANGED <<run_vars, fn_in>>

NextProgress == CallProgress

SpecProgress == InitProgress /\ [][NextProgress]_vars

\* ================================================================ claims
TransportErrors == {"RetryError", "ConnectionError"}
ServerErrors == {500, 502, 503, 504}

LastCell(r) == r[Len(r)]

\* main was ended by an exception raised inside the fetch
FetchAborted == pc = "aborted" /\ error # None /\ error[1] \in TransportErrors

NoAbstractSection(html) ==
    \A i \in 1..Len(html) : ~(html[i].tag = "div" /\ html[i].id = "abstract")

\* fetch(identifier) of the specification, for the response the client returned
Fetch(resp) ==
    IF resp.status < 200 \/ resp.status >= 300 THEN DOWNLOAD_FAILED
    ELSE IF NoAbstractSection(resp.text) THEN NOT_FOUND
    ELSE LET first == CHOOSE i \in 1..Len(resp.text) :
                        /\ resp.text[i].tag = "div" /\ resp.text[i].id = "abstract"
                        /\ \A j \in 1..(i - 1) :
                              ~(resp.text[j].tag = "div" /\ resp.text[j].id = "abstract")
         IN  resp.text[first].text

IsExactPowerOfTwo(n) == \E k \in 0..30 : n = 2^k

\* C1: when the run ends (the source exhausted, or the transport having made
\* it end), as many data rows were written as the input holds.
C1_RowCountPreserved ==
    (pc = "done" \/ FetchAborted) => Len(out_rows) = Len(in_rows)

\* C2: the fetch is total: whatever the transport does, no exception raised
\* inside the fetch reaches main.
C2_FetchIsTotal == ~FetchAborted

\* C3: when every attempt of a get was answered 500, 502, 503 or 504 and the
\* retries are used up, the row is written with the could-not-download
\* sentinel and main goes on.
C3_ExhaustedGivesSentinel ==
    (only5xx /\ attempts = DEFAULT_RETRIES + 1 /\ pc # "get")
        => /\ error = None
           /\ \/ pc = "got"
              \/ /\ Len(out_rows) = reader_pos
                 /\ LastCell(out_rows[reader_pos]) = DOWNLOAD_FAILED

\* C4: a get whose attempts are all answered by a retryable server error is
\* given up after exactly retries + 1 requests: never earlier, never later.
C4_ExactlyRetriesPlusOneAttempts ==
    /\ attempts <= DEFAULT_RETRIES + 1
    /\ (only5xx /\ attempts >= 1) => pc \in {"get", "aborted"}
    /\ (only5xx /\ pc = "get") => attempts <= DEFAULT_RETRIES
    /\ (only5xx /\ attempts >= 1 /\ pc = "aborted")
           => attempts = DEFAULT_RETRIES + 1 /\ error = Some("RetryError")

C4_Witness ==
    /\ pc = "aborted"
    /\ only5xx
    /\ attempts = DEFAULT_RETRIES + 1
    /\ error = Some("RetryError")

\* C5: a 2xx page without a div of id "abstract" is written with the
\* abstract-not-found sentinel, which differs from the could-not-download
\* one, and main goes on with the loop.
C5_NotFoundSentinel ==
    [][(pc = "got" /\ response[1].status = 200 /\ NoAbstractSection(response[1].text))
          => /\ pc' = "loop"
             /\ error' = None
             /\ Len(out_rows') = Len(out_rows) + 1
             /\ LastCell(out_rows'[Len(out_rows')]) = NOT_FOUND
             /\ NOT_FOUND # DOWNLOAD_FAILED]_vars

C5_Witness ==
    /\ Len(out_rows) >= 2
    /\ fetched[1].status = 200
    /\ NoAbstractSection(fetched[1].text)
    /\ LastCell(out_rows[1]) = NOT_FOUND

\* C6: the i-th row written is the i-th row read: its fields other than the
\* result field are unchanged, and its result field is the fetch of its own
\* PMID, never the text of another row.
C6_RowsMapIdentically ==
    /\ Len(out_rows) <= reader_pos
    /\ Len(fetched) = Len(out_rows)
    /\ \A i \in 1..Len(out_rows) :
          /\ fetched[i].url[2] = in_rows[i][PMID_FIELDNAME]
          /\ \A j \in 1..Len(in_header) :
                in_header[j] # ABSTRACT_FIELDNAME
                    => out_rows[i][j] = in_rows[i][in_header[j]]
          /\ LastCell(out_rows[i]) = Fetch(fetched[i])
          /\ LastCell(out_rows[i]) \in
                {DOWNLOAD_FAILED, NOT_FOUND, "", TextOf(in_rows[i][PMID_FIELDNAME])}

C6_Witness ==
    /\ Len(out_rows) = 2
    /\ in_rows[1][PMID_FIELDNAME] # in_rows[2][PMID_FIELDNAME]
    /\ LastCell(out_rows[1]) = TextOf(in_rows[1][PMID_FIELDNAME])
    /\ LastCell(out_rows[2]) = TextOf(in_rows[2][PMID_FIELDNAME])
    /\ ABSTRACT_FIELDNAME \in Range(in_header)

\* C7: whatever additional status codes and methods sane_retry is given, the
\* policy retries 500, 502, 503 and 504 and every default method.
C7_DefaultsAreKept ==
    fn_out # None
        => /\ ServerErrors \subseteq fn_out[1].status_forcelist
           /\ DEFAULT_ALLOWED_METHODS \subseteq fn_out[1].allowed_methods

\* C8: a progress event is emitted for row number n exactly when n is a
\* power of two, and it carries n.
C8_ProgressExactlyAtPowers ==
    fn_out # None
        => fn_out[1] = IF IsExactPowerOfTwo(fn_in)
                       THEN <<[level |-> "INFO", msg |-> "Processed row", arg |-> fn_in]>>
                       ELSE <<>>

\* C9: failures on at most `retries` attempts never end the get, and the
\* 2xx page that follows is used as if it had been the first answer: the row
\* gets the fetch of that page, and no failure event is logged for it.
C9_TransientFailuresInvisible ==
    /\ FetchAborted => attempts = DEFAULT_RETRIES + 1
    /\ (pc = "got" /\ response[1].status = 200)
          => error = None /\ attempts <= DEFAULT_RETRIES + 1
    /\ (pc = "loop" /\ reader_pos >= 1 /\ Len(out_rows) = reader_pos
          /\ fetched[reader_pos].status = 200)
          => /\ LastCell(out_rows[reader_pos])
                   = Fetch([url |-> fetched[reader_pos].url, status |-> 200,
                            text |-> fetched[reader_pos].text])
             /\ LastCell(out_rows[reader_pos]) # DOWNLOAD_FAILED
    /\ Cardinality({i \in 1..Len(log) : log[i].level = "ERROR"})
          = Cardinality({i \in 1..Len(fetched) : fetched[i].status # 200})

C9_Witness ==
    /\ pc = "loop"
    /\ Len(out_rows) = 1
    /\ attempts = DEFAULT_RETRIES + 1
    /\ retry = None
    /\ fetched[1].status = 200
    /\ LastCell(out_rows[1]) = TextOf(in_rows[1][PMID_FIELDNAME])
    /\ log = <<[level |-> "INFO", msg |-> "Processed row", arg |-> 1]>>

\* C10: the header written is the input's field names followed by "abstract",
\* and every data row is written cell by cell under that header.
C10_HeaderOrder ==
    out_header # None
        => /\ out_header[1] = in_header \o <<ABSTRACT_FIELDNAME>>
           /\ \A i \in 1..Len(out_rows) :
                 /\ Len(out_rows[i]) = Len(out_header[1])
                 /\ \A j \in 1..Len(out_header[1]) :
                       out_rows[i][j] =
                          IF out_header[1][j] = ABSTRACT_FIELDNAME
                          THEN Fetch(fetched[i])
                          ELSE in_rows[i][out_header[1][j]]

C10_Witness ==
    /\ Len(out_rows) >= 2
    /\ out_header = Some(<<"PMID", "title", "abstract">>)
    /\ out_rows[1][1] # out_rows[2][1]

\* C11: the result field of every row written is a non-empty text.
C11_ResultNonEmpty ==
    \A i \in 1..Len(out_rows) : LastCell(out_rows[i]) # ""

\* C12: a row without the PMID field ends the run with KeyError at that row:
\* no request is sent for it, it is not written, and no later row is read.
C12_MissingIdentifierIsFatal ==
    /\ \A i \in 1..reader_pos :
          PMID_FIELDNAME \notin DOMAIN in_rows[i]
             => /\ pc = "aborted"
                /\ error = Some("KeyError")
                /\ reader_pos = i
                /\ Len(out_rows) = i - 1
                /\ attempts = 0
                /\ ~ENABLED Next
    /\ error = Some("KeyError")
          => PMID_FIELDNAME \notin DOMAIN in_rows[reader_pos]

C12_Witness ==
    /\ error = Some("KeyError")
    /\ pc = "aborted"
    /\ reader_pos = 1
    /\ Len(in_rows) >= 2
    /\ out_rows = <<>>
    /\ out_header = Some(<<"title", "abstract">>)

StructuralErrors == {"OSError", "AssertionError", "KeyError"}

\* C13: the rows go through one at a time: a row is read only when every row
\* before it has been written, requests are sent only for the row last read,
\* and never more than one row is between the reader and the writer.
C13_StrictlySequential ==
    /\ reader_pos - Len(out_rows) \in {0, 1}
    /\ Len(fetched) = Len(out_rows)
    /\ pc \in {"loop", "done"} => reader_pos = Len(out_rows) /\ row = None
    /\ pc \in {"get", "got"}
          => /\ reader_pos = Len(out_rows) + 1
             /\ row = Some(in_rows[reader_pos])
    /\ pc = "got" => response[1].url = pmid_url(in_rows[reader_pos][PMID_FIELDNAME])
    /\ attempts > 0 => reader_pos >= 1 /\ Len(out_rows) >= reader_pos - 1

C13_Witness ==
    /\ pc = "get"
    /\ attempts >= 1
    /\ reader_pos = 3
    /\ Len(out_rows) = 2

\* C14: no get takes more than retries + 1 requests, and a run that no
\* structural error stopped ends with the source exhausted and every input
\* row written.
C14_BoundedAttemptsThenCompletes ==
    /\ attempts <= DEFAULT_RETRIES + 1
    /\ (~ENABLED Next /\ \A e \in StructuralErrors : error # Some(e))
          => /\ pc = "done"
             /\ reader_pos = Len(in_rows)
             /\ Len(out_rows) = Len(in_rows)

HandlesClosedAtEnd ==
    /\ pc \in {"done", "aborted"} => ~in_open /\ ~out_open
    /\ pc \in {"output_open", "loop", "get", "got"} => in_open /\ out_open
    /\ out_open => in_open

\* C15: each handle is opened once (the input at the start, the output right
\* after it), stays open while rows are processed, and both are closed when
\* main ends, whether by completion or by an exception.
C15_OpenedOnceClosedAtEnd ==
    /\ []HandlesClosedAtEnd
    /\ [][/\ (~in_open /\ in_open') => pc = "start"
          /\ (~out_open /\ out_open') => pc = "input_open"
          /\ pc' = "start" => pc = "start"
          /\ pc' = "input_open" => pc \in {"start", "input_open"}]_vars

C15_Witness ==
    /\ pc = "aborted"
    /\ error \in {Some("RetryError"), Some("KeyError")}
    /\ reader_pos >= 2
    /\ ~in_open
    /\ ~out_open

\* C16: when the input already has a field named "abstract", every cell the
\* output has under that name holds the fetched text, not the value read, and
\* the result column is the last one of the output.
C16_ExistingFieldOverwritten ==
    (ABSTRACT_FIELDNAME \in Range(in_header) /\ out_header # None)
        => /\ LastCell(out_header[1]) = ABSTRACT_FIELDNAME
           /\ \A i \in 1..Len(out_rows) :
                 /\ Len(out_rows[i]) = Len(out_header[1])
                 /\ \A j \in 1..Len(out_header[1]) :
                       out_header[1][j] = ABSTRACT_FIELDNAME
                           => /\ out_rows[i][j] = Fetch(fetched[i])
                              /\ out_rows[i][j] # in_rows[i][ABSTRACT_FIELDNAME]

C16_Witness ==
    /\ ABSTRACT_FIELDNAME \in Range(in_header)
    /\ Len(out_rows) >= 1
    /\ in_rows[1][ABSTRACT_FIELDNAME] = "old"
    /\ LastCell(out_rows[1]) = TextOf(in_rows[1][PMID_FIELDNAME])
    /\ out_header = Some(<<"PMID", "abstract", "abstract">>)

\* the statuses a request is sent again for
RetryableStatuses == RETRY_AFTER_STATUS_CODES \cup DEFAULT_ADDITIONAL_STATUS_FORCELIST

Refused(resp) ==
    /\ resp.status < 200 \/ resp.status >= 300
    /\ resp.status \notin RetryableStatuses

C18_OneFetchPerRow ==
    /\ [](/\ Len(fetched) = Len(out_rows)
          /\ pc = "got" => /\ attempts >= 1
                           /\ response[1].url = pmid_url(row[1][PMID_FIELDNAME])
          /\ \A i \in 1..Len(out_rows) :
                LastCell(out_rows[i]) = _get_pmid_abstract(fetched[i]))
    /\ [][/\ reader_pos' # reader_pos
             => attempts' = 0 /\ response' = None /\ pc' \in {"get", "aborted"}
          /\ Len(out_rows') # Len(out_rows)
             => /\ pc = "got"
                /\ attempts >= 1
                /\ Len(out_rows') = Len(out_rows) + 1
                /\ fetched' = Append(fetched, response[1])]_vars

C18_Witness ==
    /\ Len(out_rows) >= 2
    /\ in_rows[1][PMID_FIELDNAME] = in_rows[2][PMID_FIELDNAME]
    /\ LastCell(out_rows[1]) = TextOf(in_rows[1][PMID_FIELDNAME])
    /\ LastCell(out_rows[2]) = NOT_FOUND

CompleteEvents == SelectSeq(log, LAMBDA e : e.msg = "Download complete")

RateEvents == SelectSeq(log, LAMBDA e : e.msg = "Process rate")

\* C19: a run that completes logs one summary whose count is the number of
\* rows written, and logs the rate exactly when that number is not zero; a
\* run that did not complete logs neither.
C19_SummaryCountAndRate ==
    /\ pc = "done"
          => /\ Len(CompleteEvents) = 1
             /\ CompleteEvents[1].arg = Len(out_rows)
             /\ Len(out_rows) > 0 <=> Len(RateEvents) = 1
             /\ Len(out_rows) = 0 <=> RateEvents = <<>>
             /\ error = None
    /\ pc # "done" => CompleteEvents = <<>> /\ RateEvents = <<>>

C19_Witness ==
    /\ pc = "done"
    /\ Len(out_rows) = 3
    /\ Len(RateEvents) = 1
    /\ CompleteEvents[1].arg = 3

\* the level and the identifier of each event of events
Named(events) == [k \in 1..Len(events) |-> <<events[k].level, events[k].arg>>]

\* the events expected for the first n rows written, in order: one naming the
\* PMID for each row written with a sentinel, at failed_level when the page
\* could not be downloaded and at warning level when it has no abstract
RECURSIVE DegradedEvents(_, _)
DegradedEvents(n, failed_level) ==
    IF n = 0 THEN <<>>
    ELSE DegradedEvents(n - 1, failed_level) \o
         (IF Fetch(fetched[n]) = DOWNLOAD_FAILED
          THEN << <<failed_level, fetched[n].url[2]>> >>
          ELSE IF Fetch(fetched[n]) = NOT_FOUND
          THEN << <<"WARNING", fetched[n].url[2]>> >>
          ELSE <<>>)

====
